---- MODULE Spec2Model ----
(***************************************************************************)
(* Model of webserver.py: the PUT upload handler (do_PUT), the path lock   *)
(* table (manage_locks), the one-shot nullcontext() workaround and the     *)
(* unlocked GET of a plain file.                                           *)
(*                                                                         *)
(* A byte is a one-character string, a byte string is a sequence of bytes. *)
(* The two-byte line end "\r\n" of the wire is the single byte "\n".       *)
(***************************************************************************)
EXTENDS Integers, Sequences, FiniteSets, TLC

VARIABLES
    req,        \* per request: what the client sent (path, query keywords, headers, body)
    rfile,      \* per request: bytes of self.rfile not yet read
    pc,         \* per request: position in do_PUT
    guard,      \* holder of the module-level `lock` (0 = free)
    locks,      \* the module-level dict `locks`: path -> (filelock, counter) or NoEntry
    mlocal,     \* per request: the locals `filelock, counter` of manage_locks while they are live
    held,       \* per mutex object: the request holding it (0 = unlocked)
    nextId,     \* number of Lock() objects stored in the table so far
    filelock,   \* per request: the `filelock` of do_PUT (0 = nullcontext(), else a mutex)
    recordlock, \* per request: the `recordlock` of do_PUT (0 = nullcontext(), else a mutex)
    ncUsed,     \* per request: its nullcontext() object has been entered once
    existed,    \* per request: value of os.path.exists(fspath) at line 136
    w,          \* per request: the file object of `open(fspath, mode)`
    chunk,      \* per request: the local `chunk`
    exc,        \* per request: an exception is propagating
    resp,       \* per request: the response sent (status, word of the body)
    disk,       \* the filesystem: path -> content or Absent
    dirs,       \* the parent directory of the paths exists
    seen,       \* what the GET request was answered with (Unseen before it ran)
    orig        \* the filesystem (disk, dirs) when the requests arrived; never changes

vars == <<req, rfile, pc, guard, locks, mlocal, held, nextId, filelock, recordlock,
          ncUsed, existed, w, chunk, exc, resp, disk, dirs, seen, orig>>

----------------------------------------------------------------------------
(* Bounds *)

MaxChunks == 2
MaxCut == 1
MaxTokens == 3

Procs == {1, 2}
Paths == {"/d/f", "/d/g"}
MainPath == "/d/f"

----------------------------------------------------------------------------
(* Values *)

Keywords == {"append", "overwrite", "nolock", "flush"}
KeywordOrder == <<"append", "overwrite", "nolock", "flush">>
Separators == {",", "&", "?"}
HeaderNames == {"content-length", "chunked", "append"}

Absent == <<"ABSENT">>
NoEntry == [mutex |-> 0, counter |-> 0]
NoResp == [status |-> 0, word |-> ""]
Unseen == <<"UNSEEN">>
Closed == [open |-> FALSE, mode |-> "", buf |-> <<>>, pos |-> 0]

NL == "\n"
NUL == "_"
HexChars == <<"0", "1", "2", "3", "4", "5", "6", "7", "8", "9", "a", "b", "c", "d", "e", "f">>
Whitespace == {NL, " "}

----------------------------------------------------------------------------
(* Byte-string helpers *)

Take(s, n) == SubSeq(s, 1, IF n < Len(s) THEN n ELSE Len(s))
Drop(s, n) == SubSeq(s, (IF n < Len(s) THEN n ELSE Len(s)) + 1, Len(s))

RECURSIVE Flatten(_)
Flatten(cs) == IF cs = <<>> THEN <<>> ELSE Head(cs) \o Flatten(Tail(cs))

\* rfile.read(n): n bytes, or fewer when the stream ends first
Read(s, n) == Take(s, n)

\* rfile.readline(): up to and including the first line end, or all that is left
LineLen(s) ==
    IF \E i \in 1..Len(s) : s[i] = NL
    THEN CHOOSE i \in 1..Len(s) : s[i] = NL /\ \A j \in 1..(i-1) : s[j] # NL
    ELSE Len(s)
ReadLine(s) == Take(s, LineLen(s))

\* bytes.strip()
RECURSIVE LStrip(_)
LStrip(s) == IF s # <<>> /\ Head(s) \in Whitespace THEN LStrip(Tail(s)) ELSE s
RECURSIVE RStrip(_)
RStrip(s) == IF s # <<>> /\ s[Len(s)] \in Whitespace THEN RStrip(SubSeq(s, 1, Len(s) - 1)) ELSE s
Strip(s) == RStrip(LStrip(s))

\* int(b, 16) for a string of hex digits; ParseError stands for ValueError
ParseError == -1
IsHexChar(c) == \E i \in 1..16 : HexChars[i] = c
HexDigit(c) == (CHOOSE i \in 1..16 : HexChars[i] = c) - 1
RECURSIVE HexValue(_)
HexValue(s) == IF s = <<>> THEN 0 ELSE 16 * HexValue(SubSeq(s, 1, Len(s) - 1)) + HexDigit(s[Len(s)])
IntBase16(s) ==
    IF s # <<>> /\ \A i \in 1..Len(s) : IsHexChar(s[i]) THEN HexValue(s) ELSE ParseError
ChunkSizeOf(line) == IntBase16(Strip(line))

----------------------------------------------------------------------------
(* The request target and its query, lines 122-124.  A target is the list of *)
(* lexemes that follow the path: nothing, or "?" and then words and          *)
(* separators.  A token is the list of lexemes between two separators that   *)
(* the parser recognises                                                     *)

\* the tokens ts written one after the other with sep between them
RECURSIVE JoinTokens(_, _)
JoinTokens(ts, sep) ==
    IF ts = <<>> THEN <<>>
    ELSE IF Len(ts) = 1 THEN <<ts[1]>>
    ELSE <<ts[1], sep>> \o JoinTokens(Tail(ts), sep)

\* what the client puts after the path
TargetOf(ts, sep) == IF ts = <<>> THEN <<>> ELSE <<"?">> \o JoinTokens(ts, sep)

\* urlparse(self.path).query: what follows the first "?"
QueryPart(target) == IF target = <<>> THEN <<>> ELSE Tail(target)

\* str.split(sep): the pieces between the occurrences of sep, in order
RECURSIVE SplitOn(_, _)
SplitOn(s, sep) ==
    IF \E i \in 1..Len(s) : s[i] = sep
    THEN LET i == CHOOSE i \in 1..Len(s) : s[i] = sep /\ \A j \in 1..(i-1) : s[j] # sep
         IN  <<SubSeq(s, 1, i - 1)>> \o SplitOn(SubSeq(s, i + 1, Len(s)), sep)
    ELSE <<s>>

Pieces(s, sep) == { SplitOn(s, sep)[i] : i \in 1..Len(SplitOn(s, sep)) }

\* the keys of parse_qs(query, keep_blank_values=True): the non-empty fields
\* between "&" (the fields drawn here have no "=", so each is a blank-valued key)
ParseQs(query) == Pieces(query, "&") \ {<<>>}

\* a parser that does not split its keys on ","
TokensOfWholeKeys(target) == ParseQs(QueryPart(target))

\* line 124: every key split on ","; the result is a set
TokensOf(target) == UNION { Pieces(key, ",") : key \in ParseQs(QueryPart(target)) }

\* the string a token is: a word is itself; a token of several lexemes is a
\* string that is none of the words
Joined == "<joined>"
StringOf(t) == IF t = <<>> THEN "" ELSE IF Len(t) = 1 THEN t[1] ELSE Joined

\* the set `keywords` of line 124
KeywordsOf(target) == { StringOf(t) : t \in TokensOf(target) }

\* the words of k as a list, in the order of KeywordOrder
ListOf(k) == SelectSeq(KeywordOrder, LAMBDA x : x \in k)

----------------------------------------------------------------------------
(* The client: what is put on the wire for a body given as a list of chunks *)

RECURSIVE ToHex(_)
ToHex(n) == IF n < 16 THEN <<HexChars[n + 1]>> ELSE ToHex(n \div 16) \o <<HexChars[(n % 16) + 1]>>

BadSizeLine == <<"z", NL>>

\* chunks i..n in chunked transfer encoding; size line number `bad` is not hexadecimal
RECURSIVE EncodeFrom(_, _, _)
EncodeFrom(cs, i, bad) ==
    IF i > Len(cs)
    THEN (IF bad = i THEN BadSizeLine ELSE <<"0", NL>>) \o <<NL>>
    ELSE (IF bad = i THEN BadSizeLine ELSE ToHex(Len(cs[i])) \o <<NL>>)
         \o cs[i] \o <<NL>> \o EncodeFrom(cs, i + 1, bad)
EncodeChunked(cs, bad) == EncodeFrom(cs, 1, bad)

\* the bytes that reach the server: the connection may end `cut` bytes early
Wire(q) ==
    LET full == IF "chunked" \in q.hdr THEN EncodeChunked(q.chunks, q.bad) ELSE Flatten(q.chunks)
    IN  Take(full, Len(full) - q.cut)

\* value of the Content-Length header when the client sends one
ContentLength(q) == Len(Flatten(q.chunks))

\* chunk i of the body of request r: two bytes when i is odd, one byte when even
Letters == <<<<"a", "b", "c">>, <<"p", "q", "r">>, <<"s", "t", "u">>>>
ChunkOf(r, i) == IF i % 2 = 1 THEN <<Letters[r][1], Letters[r][2]>> ELSE <<Letters[r][3]>>
Body(r, n) == [i \in 1..n |-> ChunkOf(r, i)]

----------------------------------------------------------------------------
(* The filesystem and the buffered file object *)

Max(a, b) == IF a > b THEN a ELSE b

\* bytes `data` stored at offset `pos` of a file holding `content`
WriteAt(content, pos, data) ==
    [i \in 1..Max(Len(content), pos + Len(data)) |->
        IF i > pos /\ i <= pos + Len(data) THEN data[i - pos]
        ELSE IF i <= Len(content) THEN content[i]
        ELSE NUL]

\* a handler that always opens in truncate mode
ModeAlwaysTruncate(q) == "wb"

Mode(q) == IF "append" \in q.kw THEN "ab" ELSE "wb"

\* one raw write of the file object of request r: at the end of the file in
\* mode 'ab', at the file object's own offset in mode 'wb'
RawWrite(r, data) ==
    LET p == req[r].path
        old == IF disk[p] = Absent THEN <<>> ELSE disk[p]
    IN  IF data = <<>> THEN disk
        ELSE IF w[r].mode = "ab" THEN [disk EXCEPT ![p] = old \o data]
        ELSE [disk EXCEPT ![p] = WriteAt(old, w[r].pos, data)]

\* a flush lambda that flushes only when 'flush' is given
FlushWantedOnlyFlush(q) == "flush" \in q.kw

\* flush(w) of line 126: flushes when 'append' or 'flush' is given, else does nothing
FlushWanted(q) == "append" \in q.kw \/ "flush" \in q.kw

----------------------------------------------------------------------------
(* Policy of do_PUT *)

FramingPresent(q) == "content-length" \in q.hdr \/ "chunked" \in q.hdr

\* a handler for which only `append` selects the per-chunk discipline
PerChunkLockAppendOnly(q) == "append" \in q.kw

\* line 130: the per-chunk discipline, else the whole-request discipline
PerChunkLock(q) == "append" \in q.kw \/ "nolock" \in q.kw

\* an existence check that `nolock` overrides
ConflictUnlessNolock(q, exists) ==
    exists /\ ~("overwrite" \in q.kw \/ "append" \in q.kw \/ "nolock" \in q.kw)

\* line 136
Conflict(q, exists) == exists /\ ~("overwrite" \in q.kw \/ "append" \in q.kw)

\* line 156
Word200(q) == IF "append" \in q.hdr THEN "updated" ELSE "uploaded"

\* a mutex that never blocks
MutexNeverBlocks(m) == TRUE

\* threading.Lock: acquire blocks while another request holds the mutex
MutexFree(m) == held[m] = 0

\* a guard that never blocks
GuardNeverBlocks == TRUE

\* `with lock:` of manage_locks blocks while another request is inside
GuardFree == guard = 0

\* a `with` block that leaves its mutex locked
UnlockNever(h, m) == h

\* the end of a `with filelock:` or `with recordlock:` block: a real mutex is
\* released, a nullcontext() (0) releases nothing
Unlock(h, m) == IF m = 0 THEN h ELSE [h EXCEPT ![m] = 0]

----------------------------------------------------------------------------
(* do_PUT, lines 117-119: the framing check *)

CheckFraming(r) ==
    /\ pc[r] = "start"
    /\ IF ~FramingPresent(req[r])
       THEN /\ resp' = [resp EXCEPT ![r] = [status |-> 400, word |-> "noframing"]]
            /\ pc' = [pc EXCEPT ![r] = "done"]
       ELSE /\ resp' = resp
            /\ pc' = [pc EXCEPT ![r] = "m_enter"]
    /\ UNCHANGED <<req, orig, mlocal, rfile, guard, locks, held, nextId, filelock, recordlock, ncUsed,
                   existed, w, chunk, exc, disk, dirs, seen>>

(* manage_locks, line 54: with lock *)

ManageEnterGuard(r) ==
    /\ pc[r] = "m_enter"
    /\ GuardFree
    /\ guard' = r
    /\ pc' = [pc EXCEPT ![r] = "m_lookup"]
    /\ UNCHANGED <<req, orig, mlocal, rfile, locks, held, nextId, filelock, recordlock, ncUsed,
                   existed, w, chunk, exc, resp, disk, dirs, seen>>

(* manage_locks, line 55: the entry of the path, or a new mutex and count 0 *)

ManageLookup(r) ==
    /\ pc[r] = "m_lookup"
    /\ LET e == locks[req[r].path]
       IN  IF e = NoEntry
           THEN /\ mlocal' = [mlocal EXCEPT ![r] = [mutex |-> nextId + 1, counter |-> 0]]
                /\ nextId' = nextId + 1
           ELSE /\ mlocal' = [mlocal EXCEPT ![r] = e]
                /\ nextId' = nextId
    /\ pc' = [pc EXCEPT ![r] = "m_acquire"]
    /\ UNCHANGED <<req, orig, rfile, guard, locks, held, filelock, recordlock, ncUsed,
                   existed, w, chunk, exc, resp, disk, dirs, seen>>

(* manage_locks, line 56, and the end of the `with lock:` block *)

ManageAcquire(r) ==
    /\ pc[r] = "m_acquire"
    /\ locks' = [locks EXCEPT ![req[r].path] =
                    [mutex |-> mlocal[r].mutex, counter |-> mlocal[r].counter + 1]]
    /\ mlocal' = [mlocal EXCEPT ![r] = NoEntry]
    /\ guard' = 0
    /\ pc' = [pc EXCEPT ![r] = "fl_enter"]
    /\ UNCHANGED <<req, orig, rfile, held, nextId, filelock, recordlock, ncUsed,
                   existed, w, chunk, exc, resp, disk, dirs, seen>>

(* do_PUT, lines 130-135: which of the two scopes gets the real mutex, and *)
(* `with filelock:`                                                        *)

EnterFileLock(r) ==
    /\ pc[r] = "fl_enter"
    /\ LET m == locks[req[r].path].mutex
       IN  IF PerChunkLock(req[r])
           THEN /\ filelock' = [filelock EXCEPT ![r] = 0]
                /\ recordlock' = [recordlock EXCEPT ![r] = m]
                /\ ncUsed' = [ncUsed EXCEPT ![r] = TRUE]
                /\ held' = held
           ELSE /\ MutexFree(m)
                /\ filelock' = [filelock EXCEPT ![r] = m]
                /\ recordlock' = [recordlock EXCEPT ![r] = 0]
                /\ held' = [held EXCEPT ![m] = r]
                /\ ncUsed' = ncUsed
    /\ pc' = [pc EXCEPT ![r] = "check"]
    /\ UNCHANGED <<req, orig, mlocal, rfile, guard, locks, nextId, existed, w, chunk, exc, resp, disk,
                   dirs, seen>>

(* do_PUT, lines 136-138: the existence check and the 409 answer *)

CheckExists(r) ==
    /\ pc[r] = "check"
    /\ LET ex == disk[req[r].path] # Absent
       IN  /\ existed' = [existed EXCEPT ![r] = ex]
           /\ IF Conflict(req[r], ex)
              THEN /\ resp' = [resp EXCEPT ![r] = [status |-> 409, word |-> "exists"]]
                   /\ pc' = [pc EXCEPT ![r] = "close"]
              ELSE /\ resp' = resp
                   /\ pc' = [pc EXCEPT ![r] = "open"]
    /\ UNCHANGED <<req, orig, mlocal, rfile, guard, locks, held, nextId, filelock, recordlock, ncUsed,
                   w, chunk, exc, disk, dirs, seen>>

(* do_PUT, lines 139-141: os.makedirs and open(fspath, mode) *)

OpenFile(r) ==
    /\ pc[r] = "open"
    /\ dirs' = TRUE
    /\ LET p == req[r].path
       IN  disk' = IF Mode(req[r]) = "wb" \/ disk[p] = Absent
                   THEN [disk EXCEPT ![p] = <<>>]
                   ELSE disk
    /\ w' = [w EXCEPT ![r] = [open |-> TRUE, mode |-> Mode(req[r]), buf |-> <<>>, pos |-> 0]]
    /\ pc' = [pc EXCEPT ![r] = "read"]
    /\ UNCHANGED <<req, orig, mlocal, rfile, guard, locks, held, nextId, filelock, recordlock, ncUsed,
                   existed, chunk, exc, resp, seen>>

(* do_PUT, lines 142-144 and 148-151, 154-155: the next chunk of the body is *)
(* read and `with recordlock:` is entered.  A nullcontext() object is a      *)
(* generator context manager (lines 39-41): entering it a second time raises *)

\* the stream after the size line
AfterSizeLine(s) == Drop(s, Len(ReadLine(s)))
\* line 154 consumes the line that ends a chunk before the next size line is read
AfterTrailer(s) == Drop(s, Len(ReadLine(s)))

\* what the framing code yields at this point of the stream:
\* a chunk to write, the end of the body, or an exception
\* the outcome for a size line that parses to n, t being the stream after it
Outcome(n, t) ==
    IF n = ParseError THEN [kind |-> "raise", data |-> <<>>, rest |-> t]
    ELSE IF n > 0 THEN [kind |-> "chunk", data |-> Read(t, n), rest |-> Drop(t, n)]
    ELSE [kind |-> "end", data |-> <<>>, rest |-> t]

\* the one element of a set of one element
The(S) == CHOOSE x \in S : TRUE

NextOfBody(r) ==
    IF "content-length" \in req[r].hdr
    THEN IF pc[r] = "read"
         THEN [kind |-> "chunk", data |-> Read(rfile[r], ContentLength(req[r])),
               rest |-> Drop(rfile[r], ContentLength(req[r]))]
         ELSE [kind |-> "end", data |-> <<>>, rest |-> rfile[r]]
    ELSE The(UNION { { Outcome(n, AfterSizeLine(s)) : n \in {ChunkSizeOf(ReadLine(s))} } :
                     s \in {IF pc[r] = "next" THEN AfterTrailer(rfile[r]) ELSE rfile[r]} })

ReadBody(r) ==
    /\ pc[r] \in {"read", "next"}
    /\ \E x \in {NextOfBody(r)} :
           /\ rfile' = [rfile EXCEPT ![r] = x.rest]
           /\ IF x.kind = "chunk"
              THEN /\ chunk' = [chunk EXCEPT ![r] = x.data]
                   /\ IF recordlock[r] = 0
                      THEN IF ncUsed[r]
                           THEN /\ exc' = [exc EXCEPT ![r] = TRUE]
                                /\ pc' = [pc EXCEPT ![r] = "close"]
                                /\ UNCHANGED <<ncUsed, held>>
                           ELSE /\ ncUsed' = [ncUsed EXCEPT ![r] = TRUE]
                                /\ pc' = [pc EXCEPT ![r] = "write"]
                                /\ UNCHANGED <<exc, held>>
                      ELSE /\ MutexFree(recordlock[r])
                           /\ held' = [held EXCEPT ![recordlock[r]] = r]
                           /\ pc' = [pc EXCEPT ![r] = "write"]
                           /\ UNCHANGED <<exc, ncUsed>>
              ELSE /\ exc' = [exc EXCEPT ![r] = (x.kind = "raise")]
                   /\ pc' = [pc EXCEPT ![r] = "close"]
                   /\ UNCHANGED <<chunk, ncUsed, held>>
    /\ UNCHANGED <<req, orig, mlocal, guard, locks, nextId, filelock, recordlock, existed, w, resp,
                   disk, dirs, seen>>

(* do_PUT, lines 145 and 152: w.write(chunk).  The buffered writer keeps the  *)
(* bytes, or writes what it held plus a prefix of the chunk and keeps the rest *)

WriteChunk(r) ==
    /\ pc[r] = "write"
    /\ LET total == w[r].buf \o chunk[r]
       IN  \E k \in {0} \cup (Len(w[r].buf)..Len(total)) :
              /\ disk' = RawWrite(r, Take(total, k))
              /\ w' = [w EXCEPT ![r] = [w[r] EXCEPT !.buf = Drop(total, k), !.pos = w[r].pos + k]]
    /\ pc' = [pc EXCEPT ![r] = "flush"]
    /\ UNCHANGED <<req, orig, mlocal, rfile, guard, locks, held, nextId, filelock, recordlock, ncUsed,
                   existed, chunk, exc, resp, dirs, seen>>

(* do_PUT, lines 146 and 153: flush(w), and the end of `with recordlock:` *)

FlushChunk(r) ==
    /\ pc[r] = "flush"
    /\ IF FlushWanted(req[r])
       THEN /\ disk' = RawWrite(r, w[r].buf)
            /\ w' = [w EXCEPT ![r] = [w[r] EXCEPT !.buf = <<>>, !.pos = w[r].pos + Len(w[r].buf)]]
       ELSE UNCHANGED <<disk, w>>
    /\ held' = Unlock(held, recordlock[r])
    /\ pc' = [pc EXCEPT ![r] = "next"]
    /\ UNCHANGED <<req, orig, mlocal, rfile, guard, locks, nextId, filelock, recordlock, ncUsed,
                   existed, chunk, exc, resp, dirs, seen>>

(* the end of the `with open(...) as w:` block (when the file was opened) and *)
(* of the `with filelock:` block, also when an exception propagates or line   *)
(* 138 returns.  manage_locks has no try/finally around its yield, so an      *)
(* exception skips lines 58-63                                                *)

CloseFile(r) ==
    /\ pc[r] = "close"
    /\ disk' = IF w[r].open THEN RawWrite(r, w[r].buf) ELSE disk
    /\ w' = [w EXCEPT ![r] = Closed]
    /\ held' = Unlock(held, filelock[r])
    /\ pc' = [pc EXCEPT ![r] = IF exc[r] THEN "respond500" ELSE "x_enter"]
    /\ UNCHANGED <<req, orig, mlocal, rfile, guard, locks, nextId, filelock, recordlock, ncUsed,
                   existed, chunk, exc, resp, dirs, seen>>

(* manage_locks, line 58: with lock *)

ManageExitGuard(r) ==
    /\ pc[r] = "x_enter"
    /\ GuardFree
    /\ guard' = r
    /\ pc' = [pc EXCEPT ![r] = "x_lookup"]
    /\ UNCHANGED <<req, orig, mlocal, rfile, locks, held, nextId, filelock, recordlock, ncUsed,
                   existed, w, chunk, exc, resp, disk, dirs, seen>>

(* manage_locks, line 59: locks[fspath]; a missing key raises KeyError, which *)
(* leaves the `with lock:` block and the handler's with blocks                *)

ManageExitLookup(r) ==
    /\ pc[r] = "x_lookup"
    /\ LET e == locks[req[r].path]
       IN  IF e = NoEntry
           THEN /\ exc' = [exc EXCEPT ![r] = TRUE]
                /\ guard' = 0
                /\ pc' = [pc EXCEPT ![r] = "respond500"]
                /\ mlocal' = mlocal
           ELSE /\ mlocal' = [mlocal EXCEPT ![r] = e]
                /\ pc' = [pc EXCEPT ![r] = "x_release"]
                /\ UNCHANGED <<exc, guard>>
    /\ UNCHANGED <<req, orig, rfile, locks, held, nextId, filelock, recordlock, ncUsed,
                   existed, w, chunk, resp, disk, dirs, seen>>

\* a release that forgets the entry whatever its count
ReleasedEntryAlwaysDeleted(e) == NoEntry

\* lines 60-63: the entry stored for a path whose entry read at line 59 was e
ReleasedEntry(e) ==
    IF e.counter > 1 THEN [mutex |-> e.mutex, counter |-> e.counter - 1] ELSE NoEntry

(* manage_locks, lines 60-63, and the end of the `with lock:` block *)

ManageRelease(r) ==
    /\ pc[r] = "x_release"
    /\ locks' = [locks EXCEPT ![req[r].path] = ReleasedEntry(mlocal[r])]
    /\ mlocal' = [mlocal EXCEPT ![r] = NoEntry]
    /\ guard' = 0
    /\ pc' = [pc EXCEPT ![r] = IF resp[r] = NoResp THEN "respond200" ELSE "done"]
    /\ UNCHANGED <<req, orig, rfile, held, nextId, filelock, recordlock, ncUsed,
                   existed, w, chunk, exc, resp, disk, dirs, seen>>

(* do_PUT, line 156 *)

Respond200(r) ==
    /\ pc[r] = "respond200"
    /\ resp' = [resp EXCEPT ![r] = [status |-> 200, word |-> Word200(req[r])]]
    /\ pc' = [pc EXCEPT ![r] = "done"]
    /\ UNCHANGED <<req, orig, mlocal, rfile, guard, locks, held, nextId, filelock, recordlock, ncUsed,
                   existed, w, chunk, exc, disk, dirs, seen>>

(* do_PUT, lines 158-161 *)

Respond500(r) ==
    /\ pc[r] = "respond500"
    /\ resp' = [resp EXCEPT ![r] = [status |-> 500, word |-> "failed"]]
    /\ pc' = [pc EXCEPT ![r] = "done"]
    /\ UNCHANGED <<req, orig, mlocal, rfile, guard, locks, held, nextId, filelock, recordlock, ncUsed,
                   existed, w, chunk, exc, disk, dirs, seen>>

(* do_GET, lines 97-102: a plain file is served without touching `locks` *)

DoGet(p) ==
    /\ seen = Unseen
    /\ seen' = disk[p]
    /\ UNCHANGED <<req, orig, mlocal, rfile, pc, guard, locks, held, nextId, filelock, recordlock,
                   ncUsed, existed, w, chunk, exc, resp, disk, dirs>>

----------------------------------------------------------------------------
(* Requests *)

\* a request whose target lists the tokens ts with sep between them; kw is
\* the set `keywords` the handler computes from the target
RequestOf(r, p, ts, sep, h, n, b, c) ==
    [path |-> p, tokens |-> ts, sep |-> sep, target |-> TargetOf(ts, sep),
     kw |-> KeywordsOf(TargetOf(ts, sep)),
     hdr |-> h, chunks |-> Body(r, n), bad |-> b, cut |-> c]

\* a request that lists the words of k, each once, with "," between them
Request(r, p, k, h, n, b, c) == RequestOf(r, p, ListOf(k), ",", h, n, b, c)

\* every request the model draws: any keyword set, any header set, up to
\* MaxChunks chunks, at most one malformed size line, up to MaxCut bytes lost
AllRequests(r) ==
    { Request(r, p, k, h, n, b, c) :
        p \in Paths, k \in SUBSET Keywords, h \in SUBSET HeaderNames,
        n \in 0..MaxChunks, b \in 0..(MaxChunks + 1), c \in 0..MaxCut }

WellFormedInput(q) ==
    /\ q.bad <= Len(q.chunks) + 1
    /\ (q.bad > 0 => "chunked" \in q.hdr)
    /\ (q.cut > 0 => Len(Flatten(q.chunks)) >= q.cut)

SeqRequests(r) == { q \in AllRequests(r) : WellFormedInput(q) }

\* requests drawn when two run concurrently on one path: exactly one framing header, an
\* intact body of at least one chunk (one chunk under Content-Length), no
\* `append` header, and `flush` only on its own
ConcRequests(r) ==
    { q \in SeqRequests(r) :
        /\ q.path = MainPath
        /\ q.bad = 0 /\ q.cut = 0 /\ Len(q.chunks) >= 1
        /\ q.hdr \in {{"content-length"}, {"chunked"}}
        /\ ("content-length" \in q.hdr => Len(q.chunks) = 1)
        /\ ("flush" \in q.kw => q.kw = {"flush"}) }

\* every list of up to MaxTokens words, in any order, repeats included
TokenLists == UNION { [1..n -> Keywords] : n \in 0..MaxTokens }

\* requests drawn to exercise the parsing of the target: any list of words
\* joined by any one separator, an intact chunked body of at least one chunk
QueryRequests(r) ==
    { RequestOf(r, MainPath, ts, sep, {"chunked"}, n, 0, 0) :
        ts \in TokenLists, sep \in Separators, n \in 1..MaxChunks }

\* requests drawn to exercise the lock table: two requests on any paths, an
\* intact chunked body of at least one chunk, at most one of `append`, `nolock`
SmallRequests(r) ==
    { q \in SeqRequests(r) :
        /\ q.bad = 0 /\ q.cut = 0 /\ Len(q.chunks) >= 1
        /\ q.hdr = {"chunked"}
        /\ q.kw \in {{}, {"append"}, {"nolock"}} }

\* requests drawn to check progress: two requests on one path, with no
\* modifier or with `append`, an intact chunked body of one chunk or of MaxChunks
FairRequests(r) ==
    { q \in SmallRequests(r) :
        /\ q.path = MainPath
        /\ q.kw \in {{}, {"append"}}
        /\ Len(q.chunks) \in {1, MaxChunks} }

InitialDisks == [Paths -> {Absent, <<"x">>}]

InitCommon ==
    /\ guard = 0
    /\ locks = [p \in Paths |-> NoEntry]
    /\ mlocal = [r \in Procs |-> NoEntry]
    /\ held = [m \in 1..Cardinality(Procs) |-> 0]
    /\ nextId = 0
    /\ filelock = [r \in Procs |-> 0]
    /\ recordlock = [r \in Procs |-> 0]
    /\ ncUsed = [r \in Procs |-> FALSE]
    /\ existed = [r \in Procs |-> FALSE]
    /\ w = [r \in Procs |-> Closed]
    /\ chunk = [r \in Procs |-> <<>>]
    /\ exc = [r \in Procs |-> FALSE]
    /\ resp = [r \in Procs |-> NoResp]
    /\ disk \in InitialDisks
    /\ dirs \in BOOLEAN
    /\ ((\E p \in Paths : disk[p] # Absent) => dirs)
    /\ seen = Unseen
    /\ orig = [disk |-> disk, dirs |-> dirs]

\* one PUT request in flight (the other request slot is idle) and one GET request
Init ==
    /\ \E q \in SeqRequests(1) :
          req = [r \in Procs |-> IF r = 1 THEN q
                                 ELSE Request(r, CHOOSE p \in Paths : TRUE, {}, {}, 0, 0, 0)]
    /\ rfile = [r \in Procs |-> Wire(req[r])]
    /\ pc = [r \in Procs |-> IF r = 1 THEN "start" ELSE "idle"]
    /\ InitCommon

\* two PUT requests in flight
InitConc ==
    /\ \E q1 \in ConcRequests(1), q2 \in ConcRequests(2) :
          req = [r \in Procs |-> IF r = 1 THEN q1 ELSE q2]
    /\ rfile = [r \in Procs |-> Wire(req[r])]
    /\ pc = [r \in Procs |-> "start"]
    /\ InitCommon
    /\ \A p \in Paths \ {MainPath} : disk[p] = Absent

\* one PUT request in flight, its target drawn from QueryRequests
InitQuery ==
    /\ \E q \in QueryRequests(1) :
          req = [r \in Procs |-> IF r = 1 THEN q ELSE Request(r, MainPath, {}, {}, 0, 0, 0)]
    /\ rfile = [r \in Procs |-> Wire(req[r])]
    /\ pc = [r \in Procs |-> IF r = 1 THEN "start" ELSE "idle"]
    /\ InitCommon
    /\ \A p \in Paths \ {MainPath} : disk[p] = Absent

\* two PUT requests in flight on any paths; the files all exist or are all absent
InitSmall ==
    /\ \E q1 \in SmallRequests(1), q2 \in SmallRequests(2) :
          req = [r \in Procs |-> IF r = 1 THEN q1 ELSE q2]
    /\ rfile = [r \in Procs |-> Wire(req[r])]
    /\ pc = [r \in Procs |-> "start"]
    /\ InitCommon
    /\ dirs
    /\ \A p1, p2 \in Paths : disk[p1] = disk[p2]

\* two PUT requests in flight on one path, which exists or not
InitFair ==
    /\ \E q1 \in FairRequests(1), q2 \in FairRequests(2) :
          req = [r \in Procs |-> IF r = 1 THEN q1 ELSE q2]
    /\ rfile = [r \in Procs |-> Wire(req[r])]
    /\ pc = [r \in Procs |-> "start"]
    /\ InitCommon
    /\ dirs
    /\ \A p \in Paths \ {MainPath} : disk[p] = Absent

NextPut ==
    \/ \E r \in Procs : CheckFraming(r)
    \/ \E r \in Procs : ManageEnterGuard(r)
    \/ \E r \in Procs : ManageLookup(r)
    \/ \E r \in Procs : ManageAcquire(r)
    \/ \E r \in Procs : EnterFileLock(r)
    \/ \E r \in Procs : CheckExists(r)
    \/ \E r \in Procs : OpenFile(r)
    \/ \E r \in Procs : ReadBody(r)
    \/ \E r \in Procs : WriteChunk(r)
    \/ \E r \in Procs : FlushChunk(r)
    \/ \E r \in Procs : CloseFile(r)
    \/ \E r \in Procs : ManageExitGuard(r)
    \/ \E r \in Procs : ManageExitLookup(r)
    \/ \E r \in Procs : ManageRelease(r)
    \/ \E r \in Procs : Respond200(r)
    \/ \E r \in Procs : Respond500(r)

Next ==
    \/ NextPut
    \/ \E p \in Paths : DoGet(p)

\* the steps of request r
PutStep(r) ==
    \/ CheckFraming(r) \/ ManageEnterGuard(r) \/ ManageLookup(r) \/ ManageAcquire(r)
    \/ EnterFileLock(r) \/ CheckExists(r) \/ OpenFile(r) \/ ReadBody(r)
    \/ WriteChunk(r) \/ FlushChunk(r) \/ CloseFile(r)
    \/ ManageExitGuard(r) \/ ManageExitLookup(r) \/ ManageRelease(r)
    \/ Respond200(r) \/ Respond500(r)

\* every request runs in a thread of its own, which the scheduler does not
\* leave aside for ever while it can take a step
Fairness == \A r \in Procs : WF_vars(PutStep(r))

Spec == Init /\ [][Next]_vars
SpecConc == InitConc /\ [][NextPut]_vars
SpecQuery == InitQuery /\ [][NextPut]_vars
SpecSmall == InitSmall /\ [][NextPut]_vars
SpecFair == InitFair /\ [][NextPut]_vars /\ Fairness

----------------------------------------------------------------------------
(* Vocabulary of the properties *)

Done(r) == pc[r] = "done"
AllDone == \A r \in Procs : Done(r)

Payload(r) == Flatten(req[r].chunks)

\* the writes the handler is to make: the whole body under Content-Length,
\* one write per chunk under chunked encoding
Units(q) == IF "content-length" \in q.hdr THEN <<Flatten(q.chunks)>> ELSE q.chunks

OnlyContentLength(q) == "content-length" \in q.hdr /\ "chunked" \notin q.hdr
OnlyChunked(q) == "chunked" \in q.hdr /\ "content-length" \notin q.hdr
OneFraming(q) == OnlyContentLength(q) \/ OnlyChunked(q)
Intact(q) == q.bad = 0 /\ q.cut = 0

WholeRequest(q) == "append" \notin q.kw /\ "nolock" \notin q.kw

\* content of path p when the requests arrived (empty when the file was absent)
Before(p) == IF orig.disk[p] = Absent THEN <<>> ELSE orig.disk[p]

IsPrefix(a, s) == Len(a) <= Len(s) /\ SubSeq(s, 1, Len(a)) = a

\* s is an interleaving of the whole chunks of A and of B, each in its own order
RECURSIVE IsMerge(_, _, _)
IsMerge(s, A, B) ==
    IF A = <<>> /\ B = <<>> THEN s = <<>>
    ELSE \/ A # <<>> /\ IsPrefix(Head(A), s) /\ IsMerge(Drop(s, Len(Head(A))), Tail(A), B)
         \/ B # <<>> /\ IsPrefix(Head(B), s) /\ IsMerge(Drop(s, Len(Head(B))), A, Tail(B))

----------------------------------------------------------------------------
(* C1 *)

\* the requests that were not turned away with 409
NotRejected == {r \in Procs : resp[r].status # 409}

\* C1: when two PUTs to the same path that both use the whole-request lock
\* discipline (neither `append` nor `nolock`), in either framing, have both
\* finished, the file holds exactly the full payload of one of the writers.
C1_OneFullPayload ==
    (/\ AllDone
     /\ \A r \in Procs : WholeRequest(req[r]) /\ OneFraming(req[r]) /\ Intact(req[r])
     /\ \A r1, r2 \in Procs : req[r1].path = req[r2].path
     /\ NotRejected # {})
    => \E r \in NotRejected : disk[req[r].path] = Payload(r)

----------------------------------------------------------------------------
(* C2 *)

BothAppend ==
    /\ \A r \in Procs : "append" \in req[r].kw /\ OneFraming(req[r]) /\ Intact(req[r])
    /\ \A r1, r2 \in Procs : req[r1].path = req[r2].path

\* C2: when two PUTs with `append` to the same path have both finished, the
\* file holds its previous content followed by an interleaving of the whole
\* chunks of the two writers, each writer's chunks in its own order; no chunk
\* is split by bytes of the other writer.
C2_AppendWholeChunks ==
    (AllDone /\ BothAppend)
    => LET p == req[1].path
       IN  /\ IsPrefix(Before(p), disk[p])
           /\ IsMerge(Drop(disk[p], Len(Before(p))), Units(req[1]), Units(req[2]))

\* two chunked appenders have finished and a chunk of the second writer lies
\* between the two chunks of the first
C2_Witness ==
    /\ AllDone /\ BothAppend
    /\ OnlyChunked(req[1]) /\ Len(req[1].chunks) = 2
    /\ OnlyChunked(req[2]) /\ Len(req[2].chunks) = 2
    /\ disk[req[1].path] = <<"x", "a", "b", "p", "q", "c", "r">>

----------------------------------------------------------------------------
(* C3 *)

----------------------------------------------------------------------------
(* C4 *)

PastCheck(r) == pc[r] \notin {"start", "m_enter", "m_lookup", "m_acquire", "fl_enter", "check"}

\* the existence check of request r found the target and the modifiers hold
\* neither `append` nor `overwrite`
FoundWithoutModifier(r) ==
    /\ PastCheck(r) /\ existed[r]
    /\ "append" \notin req[r].kw /\ "overwrite" \notin req[r].kw

\* C4: a PUT without `append` and `overwrite` whose target exists at the
\* existence check is answered 409 whatever other modifiers it carries, and
\* the rejection has no side effect: no directory is created, the file is not
\* opened and its content is unchanged.
C4_ConflictNoSideEffect ==
    FoundWithoutModifier(1)
    => /\ resp[1].status = 409
       /\ ~w[1].open
       /\ disk = orig.disk
       /\ dirs = orig.dirs

\* a request carrying `nolock` and `flush` was rejected and has finished
C4_Witness ==
    /\ FoundWithoutModifier(1) /\ Done(1)
    /\ req[1].kw = {"nolock", "flush"}
    /\ resp[1].status = 409

----------------------------------------------------------------------------
(* C5 *)

\* C5: a PUT is accepted for framing only when exactly one of Content-Length
\* and chunked transfer-encoding is present; with both or with neither it is
\* answered 400 before a lock table entry is acquired, a directory is created
\* or a file is opened or written.
C5_AmbiguousFramingRejected ==
    \A r \in Procs :
        (pc[r] \notin {"idle", "start"} /\ ~OneFraming(req[r]))
        => /\ resp[r].status = 400
           /\ locks[req[r].path] = NoEntry
           /\ disk = orig.disk /\ dirs = orig.dirs

----------------------------------------------------------------------------
(* C6 *)

\* the stream of request r ends before the declared Content-Length is reached
EndsEarly(r) == Len(Wire(req[r])) < ContentLength(req[r])

\* C6: under Content-Length framing a PUT is answered 200 only if exactly the
\* declared number of bytes was delivered; when the stream ends before the
\* declared length the request is answered 500, never 200.
C6_TruncatedBodyFails ==
    \A r \in Procs :
        (OnlyContentLength(req[r]) /\ EndsEarly(r) /\ Done(r) /\ resp[r].status # 409)
        => resp[r].status = 500

----------------------------------------------------------------------------
(* C7 *)

\* C7: a chunked PUT without `append` (target absent, or `overwrite` given)
\* whose body is n >= 1 non-empty chunks and the zero-size terminator is
\* answered 200 and leaves the file holding exactly c1 ++ ... ++ cn.
C7_ChunkedUploadComplete ==
    (/\ Done(1)
     /\ OnlyChunked(req[1]) /\ Intact(req[1]) /\ Len(req[1].chunks) >= 1
     /\ "append" \notin req[1].kw
     /\ ("overwrite" \in req[1].kw \/ orig.disk[req[1].path] = Absent))
    => /\ resp[1].status = 200
       /\ disk[req[1].path] = Payload(1)

----------------------------------------------------------------------------
(* C8 *)

AppendAlone(r) ==
    /\ "append" \in req[r].kw
    /\ OneFraming(req[r]) /\ Intact(req[r])

\* C8: with no concurrent writer, a PUT with `append` of a body B in either
\* framing is answered 200 and leaves the file holding its previous content
\* followed by B (B alone when the file was absent).
C8_AppendRoundTrip ==
    (Done(1) /\ AppendAlone(1))
    => /\ resp[1].status = 200
       /\ disk[req[1].path] = Before(req[1].path) \o Payload(1)

\* a chunked append of two chunks to an existing file has finished
C8_Witness ==
    /\ Done(1) /\ AppendAlone(1)
    /\ OnlyChunked(req[1]) /\ Len(req[1].chunks) = 2
    /\ orig.disk[req[1].path] = <<"x">>
    /\ disk[req[1].path] = <<"x", "a", "b", "c">>

----------------------------------------------------------------------------
(* C9 *)

\* the action a 200 answer is to name, from (file existed) x (open mode)
ActionTaken(r) ==
    IF ~existed[r] THEN "created"
    ELSE IF "append" \in req[r].kw THEN "updated"
    ELSE "replaced"

\* C9: the body of every 200 answer to a PUT names the action taken: created
\* when the target did not exist, updated when an existing file was appended
\* to, replaced when an existing file was overwritten.
C9_AnswerNamesAction ==
    \A r \in Procs : resp[r].status = 200 => resp[r].word = ActionTaken(r)

----------------------------------------------------------------------------
(* C10 *)

\* chunks 1..k-1 of request r, the ones before size line k
ChunksBefore(r, k) == Flatten(SubSeq(req[r].chunks, 1, k - 1))

\* C10: a chunked PUT whose k-th size line is not hexadecimal is answered 500
\* and the file is left holding what the k-1 chunks before that line wrote.
C10_MalformedSizeLine ==
    (/\ Done(1)
     /\ OnlyChunked(req[1]) /\ req[1].bad > 0 /\ req[1].cut = 0
     /\ resp[1].status # 409)
    => /\ resp[1].status = 500
       /\ disk[req[1].path] =
            (IF Mode(req[1]) = "ab" THEN Before(req[1].path) ELSE <<>>)
            \o ChunksBefore(1, req[1].bad)

----------------------------------------------------------------------------
(* C11: the two syntaxes of the docstring, "?append,overwrite,nolock,flush"  *)
(* and "?append?overwrite?nolock?flush", give the handler the same modifier  *)
(* set, and so the same open mode, lock discipline and conflict decision,    *)
(* whatever words are listed: a request that lists its words with "?"        *)
(* between them is handled as the request that lists them with ","           *)

Parsed(r) == pc[r] \notin {"idle", "start"}

Range(f) == { f[i] : i \in DOMAIN f }

\* the list names each of its words once
NoRepeat(ts) == Cardinality(Range(ts)) = Len(ts)

\* the request that lists the same words as q with sep between them
Relisted(q, sep) == [q EXCEPT !.sep = sep, !.target = TargetOf(q.tokens, sep),
                              !.kw = KeywordsOf(TargetOf(q.tokens, sep))]

C11_BothSyntaxesAgree ==
    \A r \in Procs :
        (Parsed(r) /\ req[r].sep = "?" /\ NoRepeat(req[r].tokens)) =>
            LET c == Relisted(req[r], ",")
            IN  /\ req[r].kw = c.kw
                /\ Mode(req[r]) = Mode(c)
                /\ PerChunkLock(req[r]) = PerChunkLock(c)
                /\ Conflict(req[r], TRUE) = Conflict(c, TRUE)

----------------------------------------------------------------------------
(* C12: the modifiers are parsed as a set.  The words of a list written with *)
(* "," between them inside one key and the same words written as repeated    *)
(* blank-valued keys (with "&" between them) give the same tokens, and the   *)
(* handler's modifier set is the set of the words listed, whatever their     *)
(* order and however often a word is repeated                                *)

C12_ModifiersAreASet ==
    \A r \in Procs :
        (Parsed(r) /\ req[r].sep \in {",", "&"}) =>
            /\ req[r].kw = Range(req[r].tokens)
            /\ TokensOf(TargetOf(req[r].tokens, ",")) = TokensOf(TargetOf(req[r].tokens, "&"))
            /\ TokensOf(req[r].target) = { <<x>> : x \in Range(req[r].tokens) }

\* an upload that lists "flush", "append", "flush" as three keys was handled
\* as an append with flush
C12_Witness ==
    /\ req[1].tokens = <<"flush", "append", "flush">>
    /\ req[1].sep = "&"
    /\ req[1].kw = {"append", "flush"}
    /\ Done(1)
    /\ resp[1].status = 200
    /\ disk[req[1].path] = Before(req[1].path) \o Payload(1)

----------------------------------------------------------------------------
(* C13: every PUT that took an entry of the lock table gives it back on      *)
(* every exit path (200, the early 409, an exception answered 500): when no  *)
(* request is in flight any more the table is empty                          *)

Finished(r) == pc[r] \in {"idle", "done"}

C13_TableEmptyWhenDone ==
    (\A r \in Procs : Finished(r)) => \A p \in Paths : locks[p] = NoEntry

----------------------------------------------------------------------------
(* C14: under any interleaving of acquires and releases on any paths, a path *)
(* has an entry in the table exactly when some acquire on it has not been    *)
(* matched by a release, and the count stored is the number of such acquires *)
(* (so never zero or negative); once all are released the table is empty     *)

\* request r has executed line 56 and not (yet) lines 60-63
Unmatched(r) ==
    \/ pc[r] \in {"fl_enter", "check", "open", "read", "next", "write", "flush", "close",
                   "x_enter", "x_lookup", "x_release", "respond500"}
    \/ (Done(r) /\ resp[r].status = 500)

Holders(p) == { r \in Procs : Unmatched(r) /\ req[r].path = p }

C14_TableCountsHolders ==
    \A p \in Paths :
        /\ (locks[p] # NoEntry) <=> (Holders(p) # {})
        /\ locks[p].counter = Cardinality(Holders(p))
        /\ (locks[p] # NoEntry => locks[p].mutex > 0)

\* two requests are inside manage_locks for the same path, one of them
\* writing, while the other path has no entry
C14_Witness ==
    /\ req[1].path = req[2].path
    /\ locks[req[1].path].counter = 2
    /\ pc[1] = "write"
    /\ pc[2] = "x_enter"
    /\ \E p \in Paths : locks[p] = NoEntry

----------------------------------------------------------------------------
(* C15: all requests that are between acquire and release for the same path  *)
(* at the same time use one and the same mutex, the one stored in the table: *)
(* two requests racing to create the entry do not end up with two mutexes,   *)
(* and the entry is not removed and created anew while a request uses it     *)

\* the mutex request r uses for its path: the one it bound at lines 130-133,
\* or the one it is about to bind
Observed(r) ==
    IF pc[r] = "fl_enter" THEN locks[req[r].path].mutex
    ELSE IF filelock[r] # 0 THEN filelock[r]
    ELSE recordlock[r]

C15_OneMutexPerPath ==
    \A r1, r2 \in Procs :
        (Unmatched(r1) /\ Unmatched(r2) /\ req[r1].path = req[r2].path) =>
            /\ Observed(r1) # 0
            /\ Observed(r1) = Observed(r2)
            /\ Observed(r1) = locks[req[r1].path].mutex

\* both requests have bound the mutex of their common path, one as its
\* whole-request lock and one as its per-chunk lock
C15_Witness ==
    /\ req[1].path = req[2].path
    /\ filelock[1] # 0
    /\ recordlock[2] = filelock[1]
    /\ pc[1] = "read"
    /\ pc[2] = "read"

----------------------------------------------------------------------------
(* C16: the lock discipline is a function of the modifier set alone.  The    *)
(* file is opened in append mode exactly when `append` is given, else it is  *)
(* truncated or created.  The per-path mutex is held for the whole check,    *)
(* open and write exactly when neither `append` nor `nolock` is given, and   *)
(* only around each chunk write exactly when one of them is given: exactly   *)
(* one of the two scopes is bound to the real mutex.  Being a member of the  *)
(* lock table does not lock the mutex                                        *)

HoldsMutex(r) == \E m \in DOMAIN held : held[m] = r

\* request r is inside `with filelock:`
InFileLock(r) == pc[r] \in {"check", "open", "read", "next", "write", "flush", "close"}

C16_DisciplineFromModifiers ==
    \A r \in Procs :
        LET q == req[r]
            p == req[r].path
            perchunk == "append" \in q.kw \/ "nolock" \in q.kw
        IN  /\ w[r].open =>
                /\ w[r].mode = (IF "append" \in q.kw THEN "ab" ELSE "wb")
                /\ (pc[r] = "read" => disk[p] = (IF "append" \in q.kw THEN Before(p) ELSE <<>>))
            /\ InFileLock(r) =>
                /\ (filelock[r] # 0) <=> ~perchunk
                /\ (recordlock[r] # 0) <=> perchunk
                /\ locks[p].mutex \in {filelock[r], recordlock[r]}
                /\ (~perchunk => HoldsMutex(r))
                /\ (perchunk => (HoldsMutex(r) <=> pc[r] \in {"write", "flush"}))
            /\ (pc[r] = "fl_enter" => locks[p] # NoEntry /\ ~HoldsMutex(r))

\* an upload with `nolock`, `overwrite` and `flush` writes its first chunk
\* into the truncated file under the mutex, which it did not hold before
C16_Witness ==
    /\ req[1].kw = {"nolock", "overwrite", "flush"}
    /\ orig.disk[req[1].path] = <<"x">>
    /\ pc[1] = "write"
    /\ w[1].mode = "wb"
    /\ filelock[1] = 0
    /\ held[recordlock[1]] = 1
    /\ disk[req[1].path] = <<>>

----------------------------------------------------------------------------
(* C17: the guard of the table is held only while the table is read and      *)
(* changed.  Its holder has no file open, holds no per-path mutex and is not *)
(* at a point where it waits for one, reads the body or answers; and no      *)
(* request that is about to take the guard holds a per-path mutex            *)

C17_GuardOnlyAroundTable ==
    \A r \in Procs :
        /\ (guard = r => /\ pc[r] \in {"m_lookup", "m_acquire", "x_lookup", "x_release"}
                         /\ ~HoldsMutex(r)
                         /\ ~w[r].open)
        /\ (pc[r] \in {"m_enter", "x_enter"} => ~HoldsMutex(r))

\* one request is inside the guard to release its entry while the other
\* writes its chunk under the mutex of the same path
C17_Witness ==
    /\ req[1].path = req[2].path
    /\ guard = 1
    /\ pc[1] = "x_release"
    /\ pc[2] = "write"
    /\ HoldsMutex(2)

----------------------------------------------------------------------------
(* C18: of the concurrent PUTs to one path that is absent at first, none of  *)
(* them with `overwrite` or `append` (each with or without `nolock` and      *)
(* `flush`), at most one is answered 200 and every other one 409: the        *)
(* existence check and the creation are atomic, and none of these requests   *)
(* opens, and so truncates, a file that another one has created              *)

\* all requests are uploads to one path that was absent, none with `overwrite`
\* or `append`
CreateRace ==
    /\ \A r \in Procs : pc[r] # "idle" /\ req[r].path = req[1].path
    /\ orig.disk[req[1].path] = Absent
    /\ \A r \in Procs : "overwrite" \notin req[r].kw /\ "append" \notin req[r].kw

AtMostOne(S) == Cardinality(S) <= 1

C18_CreateOnce ==
    CreateRace =>
        /\ \A r \in Procs : pc[r] = "open" => disk[req[r].path] = Absent
        /\ AllDone => /\ AtMostOne({ r \in Procs : resp[r].status = 200 })
                      /\ AtMostOne({ r \in Procs : resp[r].status # 409 })

\* the same when no request carries `nolock`: every request then makes its
\* check and its open under the mutex

CreateOnceUnderWholeLock ==
    (CreateRace /\ \A r \in Procs : "nolock" \notin req[r].kw) =>
        /\ \A r \in Procs : pc[r] = "open" => disk[req[r].path] = Absent
        /\ AllDone => /\ AtMostOne({ r \in Procs : resp[r].status = 200 })
                      /\ AtMostOne({ r \in Procs : resp[r].status # 409 })

----------------------------------------------------------------------------
(* C19: a request that has finished (answered 200, 409 or 500) holds no      *)
(* per-path mutex, and under fair scheduling every request that waits for    *)
(* the mutex of its path gets it and every request is answered in the end,   *)
(* also when another request to the same path fails                          *)

\* request r is at `with filelock:` or `with recordlock:` and another request
\* holds the mutex
Waiting(r) ==
    \/ /\ pc[r] = "fl_enter"
       /\ ~PerChunkLock(req[r])
       /\ ~MutexFree(locks[req[r].path].mutex)
    \/ /\ pc[r] \in {"read", "next"}
       /\ recordlock[r] # 0
       /\ NextOfBody(r).kind = "chunk"
       /\ ~MutexFree(recordlock[r])

C19_ReleasedAndAnswered ==
    /\ [](\A r \in Procs : Done(r) => ~HoldsMutex(r))
    /\ \A r \in Procs : Waiting(r) ~> HoldsMutex(r)
    /\ \A r \in Procs : (pc[r] = "start") ~> (Done(r) /\ resp[r] # NoResp)

\* request 2 waits for the mutex of the path while request 1, which holds
\* it, has failed and has not left its with blocks yet
C19_Witness ==
    /\ req[1].path = req[2].path
    /\ Waiting(2)
    /\ exc[1]
    /\ pc[1] = "close"
    /\ HoldsMutex(1)

----------------------------------------------------------------------------
(* C20: one whole-request writer W (`overwrite`, Content-Length) and one     *)
(* concurrent `append` writer A on the same path.  Nothing of A reaches the  *)
(* file between W's truncating open and W's close, so when W closes and      *)
(* releases the mutex the file is exactly W's payload, and in the end the    *)
(* file is W's payload followed only by whole chunks of A, those that A      *)
(* wrote after W finished                                                    *)

IsWholeWriter(r) == req[r].kw = {"overwrite"} /\ OnlyContentLength(req[r])
IsAppender(r) == "append" \in req[r].kw

\* the last k writes of request r, one after the other
LastUnits(r, k) ==
    LET u == Units(req[r]) IN Flatten(SubSeq(u, Len(u) - k + 1, Len(u)))

C20_MixedDisciplines ==
    \A W, A \in Procs :
        (W # A /\ IsWholeWriter(W) /\ IsAppender(A) /\ req[W].path = req[A].path) =>
            LET p == req[W].path
            IN  /\ w[W].open =>
                    /\ disk[p] = Take(Payload(W), w[W].pos)
                    /\ pc[A] \notin {"write", "flush"}
                /\ (w[W].open /\ pc[W] = "close") => disk[p] \o w[W].buf = Payload(W)
                /\ (Done(W) /\ ~Done(A)) => IsPrefix(Payload(W), disk[p])
                /\ AllDone =>
                    /\ resp[W].status = 200
                    /\ resp[A].status = 200
                    /\ \E k \in 0..Len(Units(req[A])) : disk[p] = Payload(W) \o LastUnits(A, k)

\* the appender wrote its first chunk before the whole-request writer
\* truncated the file and its second chunk after that writer had finished
C20_Witness ==
    /\ IsWholeWriter(1)
    /\ req[2].kw = {"append"}
    /\ Len(req[2].chunks) = 2
    /\ orig.disk[req[1].path] = <<"x">>
    /\ AllDone
    /\ disk[req[1].path] = Payload(1) \o ChunkOf(2, 2)

====
